---- MODULE Spec2Model ----
(***************************************************************************)
(* Model of the pool allocator of memory_manager.c: a malloc'ed arena and  *)
(* a singly linked list of MemBlock records (block_size, is_available,     *)
(* next_block, data_ptr) reached from pool_head.                           *)
(*                                                                         *)
(* Addresses are integers, NULL is 0.  The C library's malloc is modelled  *)
(* by two finite stores: `arenas` (the addresses of reserved arenas) and   *)
(* `heap` (the MemBlock records that are allocated, by record address).    *)
(* malloc may refuse any request, and refuses when its store is exhausted. *)
(* When it succeeds it hands out the lowest unused address: the program    *)
(* never compares or orders record addresses, so the choice is immaterial. *)
(*                                                                         *)
(* Each public function is one action: the functions are synchronous and   *)
(* run to completion.  The caller under Spec calls mem_init only while no  *)
(* pool exists (at the start and after mem_deinit) and makes at most       *)
(* MaxZeroReqs requests of size 0 on one pool; every other call is made    *)
(* in any order with any argument, also before mem_init, after mem_deinit  *)
(* and with addresses the pool never handed out.  The last call, its       *)
(* arguments and its result are kept in op, argPtr, argSize, ret, oom and  *)
(* freed.  Two other callers are specified further down: SpecReinit also   *)
(* calls mem_init while a pool exists, and SpecScenario makes the calls of *)
(* one fixed script on a pool of 100 bytes.                                *)
(***************************************************************************)
EXTENDS Integers, Sequences, FiniteSets, TLC

\* ------------------------------------------------------------- bounds
MaxPool == 3       \* the largest pool_size given to mem_init
MaxZeroReqs == 1   \* how many requests of size 0 are made on one pool
NumArenas == 2     \* how many arenas malloc can hold reserved at once

NULL == 0

PoolSizes == 1..MaxPool
Sizes == 0..MaxPool
Stride == MaxPool + 1
ArenaBases == {1 + k * Stride : k \in 0..(NumArenas - 1)}
Ptrs == 0..Stride
\* every split adds one record: MaxPool records cover a pool byte by byte, and
\* each request of size 0 can add one more
MaxRecs == MaxPool + MaxZeroReqs
Recs == 1..MaxRecs
\* byte values: the code only copies bytes, so two values tell any two copies apart
Bytes == {0, 1}

VARIABLES
    pool_start,       \* void* pool_start
    pool_head,        \* MemBlock* pool_head
    total_pool_size,  \* size_t total_pool_size
    heap,             \* the allocated MemBlock records, by record address
    arenas,           \* the arenas malloc has reserved and free has not released
    mem,              \* the bytes of the current arena, by address
    exited,           \* the process has called exit(EXIT_FAILURE)
    op,               \* the last public call
    argPtr,           \* its pointer argument (NULL when it has none)
    argSize,          \* its size argument (0 when it has none)
    ret,              \* its return value (NULL for the void functions)
    oom,              \* malloc refused a request during the last call
    live,             \* addresses handed out by an allocation of this pool and not yet released
    zeroReqs,         \* how many times a size of 0 has been requested since the last mem_init
    freed,            \* how many MemBlock records the last call passed to free()
    pc                \* how many calls the scripted caller has made (0 for the other callers)

vars == <<pool_start, pool_head, total_pool_size, heap, arenas, mem, exited,
          op, argPtr, argSize, ret, oom, live, zeroReqs, freed, pc>>

\* ------------------------------------------------------------- helpers
SetMin(S) == CHOOSE x \in S : \A y \in S : x <= y

NoMem == [a \in {} |-> 0]

\* struct MemBlock
MemBlock(size, avail, next, ptr) ==
    [block_size |-> size, is_available |-> avail, next_block |-> next, data_ptr |-> ptr]

\* malloc(sizeof(MemBlock)): NULL when refused, else an unused record address
MallocRec(h, ok) ==
    IF ok /\ (Recs \ DOMAIN h) # {} THEN SetMin(Recs \ DOMAIN h) ELSE NULL

\* malloc(pool_size): NULL when refused, else the address of an unreserved arena
MallocArena(as, ok) ==
    IF ok /\ (ArenaBases \ as) # {} THEN SetMin(ArenaBases \ as) ELSE NULL

\* free(record)
FreeRec(h, r) == [x \in (DOMAIN h) \ {r} |-> h[x]]

\* the records reached from `current` by next_block, in list order
RECURSIVE ListFrom(_, _)
ListFrom(h, current) ==
    IF current = NULL THEN <<>>
    ELSE <<current>> \o ListFrom(h, h[current].next_block)

\* FindFit with `>` for `>=`: a block of exactly the requested size is passed over
RECURSIVE FindFit_strict(_, _, _)
FindFit_strict(h, current, size) ==
    IF current = NULL THEN NULL
    ELSE IF h[current].is_available # 0 /\ h[current].block_size > size THEN current
    ELSE FindFit_strict(h, h[current].next_block, size)

\* the search loop of mem_alloc: the first record that is available and large enough
RECURSIVE FindFit(_, _, _)
FindFit(h, current, size) ==
    IF current = NULL THEN NULL
    ELSE IF h[current].is_available # 0 /\ h[current].block_size >= size THEN current
    ELSE FindFit(h, h[current].next_block, size)

\* the search loop of mem_free and mem_resize: the first record whose data_ptr is ptr
RECURSIVE FindPtr(_, _, _)
FindPtr(h, current, ptr) ==
    IF current = NULL THEN NULL
    ELSE IF h[current].data_ptr = ptr THEN current
    ELSE FindPtr(h, h[current].next_block, ptr)

\* ptr is the data_ptr of a record of the list, and the first such record is in use
InUseAt(h, head, ptr) ==
    LET b == FindPtr(h, head, ptr) IN b # NULL /\ h[b].is_available = 0

\* ------------------------------------------------------------- mem_alloc
\* mem_alloc that leaves the chosen block at its full size when it splits
mem_alloc_noshrink(h, head, size, new_block) ==
    LET current == FindFit(h, head, size) IN
    IF current = NULL THEN [heap |-> h, ret |-> NULL, oom |-> FALSE]
    ELSE IF h[current].block_size > size THEN
        IF new_block = NULL THEN [heap |-> h, ret |-> NULL, oom |-> TRUE]
        ELSE [heap |-> [h EXCEPT ![current].is_available = 0,
                                 ![current].next_block = new_block]
                       @@ (new_block :> MemBlock(h[current].block_size - size, 1,
                                                 h[current].next_block,
                                                 h[current].data_ptr + size)),
              ret |-> h[current].data_ptr, oom |-> FALSE]
    ELSE [heap |-> [h EXCEPT ![current].is_available = 0],
          ret |-> h[current].data_ptr, oom |-> FALSE]

\* mem_alloc that marks the chosen block in use before it asks malloc for the record
mem_alloc_early(h, head, size, new_block) ==
    LET current == FindFit(h, head, size) IN
    IF current = NULL THEN [heap |-> h, ret |-> NULL, oom |-> FALSE]
    ELSE IF h[current].block_size > size THEN
        IF new_block = NULL
        THEN [heap |-> [h EXCEPT ![current].is_available = 0], ret |-> NULL, oom |-> TRUE]
        ELSE [heap |-> [h EXCEPT ![current].block_size = size,
                                 ![current].is_available = 0,
                                 ![current].next_block = new_block]
                       @@ (new_block :> MemBlock(h[current].block_size - size, 1,
                                                 h[current].next_block,
                                                 h[current].data_ptr + size)),
              ret |-> h[current].data_ptr, oom |-> FALSE]
    ELSE [heap |-> [h EXCEPT ![current].is_available = 0],
          ret |-> h[current].data_ptr, oom |-> FALSE]

\* mem_alloc that does not link the remainder to the chosen block's successor
mem_alloc_droptail(h, head, size, new_block) ==
    LET current == FindFit(h, head, size) IN
    IF current = NULL THEN [heap |-> h, ret |-> NULL, oom |-> FALSE]
    ELSE IF h[current].block_size > size THEN
        IF new_block = NULL THEN [heap |-> h, ret |-> NULL, oom |-> TRUE]
        ELSE [heap |-> [h EXCEPT ![current].block_size = size,
                                 ![current].is_available = 0,
                                 ![current].next_block = new_block]
                       @@ (new_block :> MemBlock(h[current].block_size - size, 1,
                                                 NULL,
                                                 h[current].data_ptr + size)),
              ret |-> h[current].data_ptr, oom |-> FALSE]
    ELSE [heap |-> [h EXCEPT ![current].is_available = 0],
          ret |-> h[current].data_ptr, oom |-> FALSE]

\* new_block is what malloc returns if mem_alloc calls it
mem_alloc(h, head, size, new_block) ==
    LET current == FindFit(h, head, size) IN
    IF current = NULL THEN [heap |-> h, ret |-> NULL, oom |-> FALSE]
    ELSE IF h[current].block_size > size THEN
        IF new_block = NULL THEN [heap |-> h, ret |-> NULL, oom |-> TRUE]
        ELSE [heap |-> [h EXCEPT ![current].block_size = size,
                                 ![current].is_available = 0,
                                 ![current].next_block = new_block]
                       @@ (new_block :> MemBlock(h[current].block_size - size, 1,
                                                 h[current].next_block,
                                                 h[current].data_ptr + size)),
              ret |-> h[current].data_ptr, oom |-> FALSE]
    ELSE [heap |-> [h EXCEPT ![current].is_available = 0],
          ret |-> h[current].data_ptr, oom |-> FALSE]

\* ------------------------------------------------------------- mem_free
\* the merge loop without `current->block_size += next_block->block_size`
RECURSIVE MergeNext_nosum(_, _)
MergeNext_nosum(h, current) ==
    LET next_block == h[current].next_block IN
    IF next_block # NULL /\ h[next_block].is_available # 0
    THEN MergeNext_nosum(FreeRec([h EXCEPT ![current].next_block = h[next_block].next_block],
                                 next_block),
                         current)
    ELSE h

\* the merge loop without free(next_block): the absorbed record stays allocated
RECURSIVE MergeNext_leak(_, _)
MergeNext_leak(h, current) ==
    LET next_block == h[current].next_block IN
    IF next_block # NULL /\ h[next_block].is_available # 0
    THEN MergeNext_leak([h EXCEPT ![current].block_size = @ + h[next_block].block_size,
                                  ![current].next_block = h[next_block].next_block],
                        current)
    ELSE h

\* the merge loop with `if` for `while`: one successor at most is absorbed
MergeNext_once(h, current) ==
    LET next_block == h[current].next_block IN
    IF next_block # NULL /\ h[next_block].is_available # 0
    THEN FreeRec([h EXCEPT ![current].block_size = @ + h[next_block].block_size,
                           ![current].next_block = h[next_block].next_block],
                 next_block)
    ELSE h

\* the merge loop of mem_free
RECURSIVE MergeNext(_, _)
MergeNext(h, current) ==
    LET next_block == h[current].next_block IN
    IF next_block # NULL /\ h[next_block].is_available # 0
    THEN MergeNext(FreeRec([h EXCEPT ![current].block_size = @ + h[next_block].block_size,
                                     ![current].next_block = h[next_block].next_block],
                           next_block),
                   current)
    ELSE h

\* mem_free without the merge loop
mem_free_nomerge(h, head, ptr) ==
    IF ptr = NULL THEN h
    ELSE LET current == FindPtr(h, head, ptr) IN
         IF current = NULL THEN h
         ELSE IF h[current].is_available # 0 THEN h
         ELSE [h EXCEPT ![current].is_available = 1]

\* mem_free without the test for a block that is already available
mem_free_nocheck(h, head, ptr) ==
    IF ptr = NULL THEN h
    ELSE LET current == FindPtr(h, head, ptr) IN
         IF current = NULL THEN h
         ELSE MergeNext([h EXCEPT ![current].is_available = 1], current)

mem_free(h, head, ptr) ==
    IF ptr = NULL THEN h
    ELSE LET current == FindPtr(h, head, ptr) IN
         IF current = NULL THEN h
         ELSE IF h[current].is_available # 0 THEN h
         ELSE MergeNext([h EXCEPT ![current].is_available = 1], current)

\* ------------------------------------------------------------- mem_resize
\* memcpy(dst, src, n) inside the arena
memcpy(m, dst, src, n) ==
    [a \in DOMAIN m |-> IF a >= dst /\ a < dst + n THEN m[src + (a - dst)] ELSE m[a]]

\* mem_resize with `>` for `>=`: a block of exactly the requested size is reallocated
mem_resize_strict(h, head, m, ptr, size, new_block) ==
    IF ptr = NULL
    THEN LET a == mem_alloc(h, head, size, new_block) IN
         [heap |-> a.heap, mem |-> m, ret |-> a.ret, oom |-> a.oom]
    ELSE LET block == FindPtr(h, head, ptr) IN
         IF block = NULL THEN [heap |-> h, mem |-> m, ret |-> NULL, oom |-> FALSE]
         ELSE IF h[block].block_size > size
         THEN [heap |-> h, mem |-> m, ret |-> ptr, oom |-> FALSE]
         ELSE LET a == mem_alloc(h, head, size, new_block)
                  new_ptr == a.ret IN
              IF new_ptr # NULL
              THEN [heap |-> mem_free(a.heap, head, ptr),
                    mem |-> memcpy(m, new_ptr, ptr, a.heap[block].block_size),
                    ret |-> new_ptr, oom |-> a.oom]
              ELSE [heap |-> a.heap, mem |-> m, ret |-> new_ptr, oom |-> a.oom]

\* mem_resize that releases the old block whether or not the allocation succeeded
mem_resize_freeold(h, head, m, ptr, size, new_block) ==
    IF ptr = NULL
    THEN LET a == mem_alloc(h, head, size, new_block) IN
         [heap |-> a.heap, mem |-> m, ret |-> a.ret, oom |-> a.oom]
    ELSE LET block == FindPtr(h, head, ptr) IN
         IF block = NULL THEN [heap |-> h, mem |-> m, ret |-> NULL, oom |-> FALSE]
         ELSE IF h[block].block_size >= size
         THEN [heap |-> h, mem |-> m, ret |-> ptr, oom |-> FALSE]
         ELSE LET a == mem_alloc(h, head, size, new_block)
                  new_ptr == a.ret IN
              [heap |-> mem_free(a.heap, head, ptr),
               mem |-> IF new_ptr # NULL
                       THEN memcpy(m, new_ptr, ptr, a.heap[block].block_size) ELSE m,
               ret |-> new_ptr, oom |-> a.oom]

mem_resize(h, head, m, ptr, size, new_block) ==
    IF ptr = NULL
    THEN LET a == mem_alloc(h, head, size, new_block) IN
         [heap |-> a.heap, mem |-> m, ret |-> a.ret, oom |-> a.oom]
    ELSE LET block == FindPtr(h, head, ptr) IN
         IF block = NULL THEN [heap |-> h, mem |-> m, ret |-> NULL, oom |-> FALSE]
         ELSE IF h[block].block_size >= size
         THEN [heap |-> h, mem |-> m, ret |-> ptr, oom |-> FALSE]
         ELSE LET a == mem_alloc(h, head, size, new_block)
                  new_ptr == a.ret IN
              IF new_ptr # NULL
              THEN [heap |-> mem_free(a.heap, head, ptr),
                    mem |-> memcpy(m, new_ptr, ptr, a.heap[block].block_size),
                    ret |-> new_ptr, oom |-> a.oom]
              ELSE [heap |-> a.heap, mem |-> m, ret |-> new_ptr, oom |-> a.oom]

\* ------------------------------------------------------------- mem_deinit
\* a release loop that frees the first record only
mem_deinit_headonly(h, current) ==
    IF current = NULL THEN h ELSE FreeRec(h, current)

\* the release loop of mem_deinit: every record reached from pool_head is freed
RECURSIVE mem_deinit(_, _)
mem_deinit(h, current) ==
    IF current = NULL THEN h
    ELSE mem_deinit(FreeRec(h, current), h[current].next_block)

\* ------------------------------------------------------------- the state machine
Init ==
    /\ pool_start = NULL
    /\ pool_head = NULL
    /\ total_pool_size = 0
    /\ heap = NoMem
    /\ arenas = {}
    /\ mem = NoMem
    /\ exited = FALSE
    /\ op = "none"
    /\ argPtr = NULL
    /\ argSize = 0
    /\ ret = NULL
    /\ oom = FALSE
    /\ live = {}
    /\ zeroReqs = 0
    /\ freed = 0
    /\ pc = 0

\* exit(EXIT_FAILURE): the process and all its memory are gone
Exit ==
    /\ exited' = TRUE
    /\ pool_start' = NULL
    /\ pool_head' = NULL
    /\ total_pool_size' = 0
    /\ heap' = NoMem
    /\ arenas' = {}
    /\ mem' = NoMem
    /\ ret' = NULL
    /\ oom' = TRUE
    /\ live' = {}
    /\ zeroReqs' = 0
    /\ freed' = 0

\* mem_init(pool_size); okArena, okRec: whether malloc grants the two requests;
\* fill: the bytes malloc left in the arena, by offset
MemInitWith(pool_size, okArena, okRec, fill) ==
    /\ ~exited
    /\ op' = "mem_init" /\ argPtr' = NULL /\ argSize' = pool_size
    /\ LET start == MallocArena(arenas, okArena)
           head  == MallocRec(heap, okRec)
       IN IF start = NULL \/ head = NULL
          THEN Exit
          ELSE /\ pool_start' = start
               /\ total_pool_size' = pool_size
               /\ pool_head' = head
               /\ heap' = heap @@ (head :> MemBlock(pool_size, 1, NULL, start))
               /\ arenas' = arenas \cup {start}
               /\ mem' = [a \in start..(start + pool_size - 1) |-> fill[a - start]]
               /\ ret' = NULL
               /\ oom' = FALSE
               /\ live' = {}
               /\ zeroReqs' = 0
               /\ freed' = 0
               /\ UNCHANGED exited

\* mem_init(pool_size) on an arena of any contents
MemInit(pool_size, okArena, okRec) ==
    \E fill \in [0..(pool_size - 1) -> Bytes] : MemInitWith(pool_size, okArena, okRec, fill)

\* mem_alloc(size); ok: whether malloc grants a MemBlock if asked
MemAlloc(size, ok) ==
    /\ ~exited
    /\ size = 0 => zeroReqs < MaxZeroReqs
    /\ op' = "mem_alloc" /\ argPtr' = NULL /\ argSize' = size
    /\ LET r == mem_alloc(heap, pool_head, size, MallocRec(heap, ok))
       IN /\ heap' = r.heap
          /\ ret' = r.ret
          /\ oom' = r.oom
          /\ live' = IF r.ret # NULL THEN live \cup {r.ret} ELSE live
    /\ zeroReqs' = (IF size = 0 THEN zeroReqs + 1 ELSE zeroReqs)
    /\ freed' = Cardinality(DOMAIN heap \ DOMAIN heap')
    /\ UNCHANGED <<pool_start, pool_head, total_pool_size, arenas, mem, exited>>

\* mem_free(ptr)
MemFree(ptr) ==
    /\ ~exited
    /\ op' = "mem_free" /\ argPtr' = ptr /\ argSize' = 0
    /\ heap' = mem_free(heap, pool_head, ptr)
    /\ ret' = NULL
    /\ oom' = FALSE
    /\ live' = IF InUseAt(heap, pool_head, ptr) THEN live \ {ptr} ELSE live
    /\ freed' = Cardinality(DOMAIN heap \ DOMAIN heap')
    /\ UNCHANGED <<pool_start, pool_head, total_pool_size, arenas, mem, exited, zeroReqs>>

\* mem_resize(ptr, size); ok: whether malloc grants a MemBlock if asked
MemResize(ptr, size, ok) ==
    /\ ~exited
    /\ size = 0 => zeroReqs < MaxZeroReqs
    /\ op' = "mem_resize" /\ argPtr' = ptr /\ argSize' = size
    /\ LET r == mem_resize(heap, pool_head, mem, ptr, size, MallocRec(heap, ok))
           \* a block was handed out: every path that marks a block in use changes the heap
           fresh == r.ret # NULL /\ r.heap # heap
       IN /\ heap' = r.heap
          /\ mem' = r.mem
          /\ ret' = r.ret
          /\ oom' = r.oom
          /\ live' = IF ~fresh THEN live
                     ELSE IF InUseAt(heap, pool_head, ptr) THEN (live \ {ptr}) \cup {r.ret}
                     ELSE live \cup {r.ret}
    /\ zeroReqs' = (IF size = 0 THEN zeroReqs + 1 ELSE zeroReqs)
    /\ freed' = Cardinality(DOMAIN heap \ DOMAIN heap')
    /\ UNCHANGED <<pool_start, pool_head, total_pool_size, arenas, exited>>

\* mem_deinit()
MemDeinit ==
    /\ ~exited
    /\ op' = "mem_deinit" /\ argPtr' = NULL /\ argSize' = 0
    /\ arenas' = arenas \ {pool_start}
    /\ pool_start' = NULL
    /\ heap' = mem_deinit(heap, pool_head)
    /\ pool_head' = NULL
    /\ total_pool_size' = 0
    /\ mem' = NoMem
    /\ ret' = NULL
    /\ oom' = FALSE
    /\ live' = {}
    /\ zeroReqs' = 0
    /\ freed' = Cardinality(DOMAIN heap \ DOMAIN heap')
    /\ UNCHANGED exited

Next ==
    \/ \E s \in PoolSizes, okA \in BOOLEAN, okR \in BOOLEAN :
          pool_start = NULL /\ MemInit(s, okA, okR) /\ UNCHANGED pc
    \/ \E s \in Sizes, ok \in BOOLEAN : MemAlloc(s, ok) /\ UNCHANGED pc
    \/ \E p \in Ptrs : MemFree(p) /\ UNCHANGED pc
    \/ \E p \in Ptrs, s \in Sizes, ok \in BOOLEAN : MemResize(p, s, ok) /\ UNCHANGED pc
    \/ MemDeinit /\ UNCHANGED pc

Spec == Init /\ [][Next]_vars

\* ------------------------------------------------------------- views of the state
\* the descriptor list walked from head, as the sequence of its records
BlocksOf(h, head) == [i \in 1..Len(ListFrom(h, head)) |-> h[ListFrom(h, head)[i]]]
Blocks == BlocksOf(heap, pool_head)

RECURSIVE SumSizes(_)
SumSizes(B) == IF B = <<>> THEN 0 ELSE Head(B).block_size + SumSizes(Tail(B))

Available(b) == b.is_available # 0
InUse(b) == b.is_available = 0

\* the positions of the descriptors that start at address a
At(B, a) == {i \in 1..Len(B) : B[i].data_ptr = a}
\* the positions of the available descriptors of at least n bytes
Fits(B, n) == {i \in 1..Len(B) : Available(B[i]) /\ B[i].block_size >= n}

TypeOK ==
    /\ pool_start \in ArenaBases \cup {NULL}
    /\ pool_head \in Recs \cup {NULL}
    /\ DOMAIN heap \subseteq Recs
    /\ arenas \subseteq ArenaBases
    /\ live \subseteq Ptrs
    /\ ret \in Ptrs
    /\ zeroReqs \in 0..MaxZeroReqs
    /\ freed \in 0..MaxRecs
    /\ pc = 0

\* ------------------------------------------------------------- C1
\* B is a gap-free partition of the arena in increasing address order
Partition(B) ==
    /\ Len(B) >= 1
    /\ B[1].data_ptr = pool_start
    /\ \A i \in 1..(Len(B) - 1) :
          /\ B[i + 1].data_ptr = B[i].data_ptr + B[i].block_size
          /\ B[i].data_ptr < B[i + 1].data_ptr
    /\ SumSizes(B) = total_pool_size

\* C1: after mem_init and any calls of mem_alloc / mem_free / mem_resize with sizes > 0,
\* the list starts at pool_start, every descriptor starts where the previous one ends,
\* the data_ptr values strictly increase, and the sizes sum to total_pool_size.
C1_Partition == (pool_head # NULL /\ zeroReqs = 0) => Partition(Blocks)

\* a release in the middle of the list, with no request of size 0 before it
C1_Witness ==
    /\ zeroReqs = 0
    /\ op = "mem_free" /\ Len(Blocks) >= 3
    /\ \E i \in 2..(Len(Blocks) - 1) : Blocks[i].data_ptr = argPtr /\ Available(Blocks[i])

\* ------------------------------------------------------------- C2
\* C2: after every public operation no two descriptors adjacent in the list are both
\* available.
C2_NoAdjacentFree ==
    pool_head # NULL =>
        \A i \in 1..(Len(Blocks) - 1) : ~(Available(Blocks[i]) /\ Available(Blocks[i + 1]))

\* ------------------------------------------------------------- C3
\* [b.data_ptr, b.data_ptr + b.block_size) and the same range of c do not intersect
Disjoint(b, c) ==
    \/ b.data_ptr + b.block_size <= c.data_ptr
    \/ c.data_ptr + c.block_size <= b.data_ptr

\* C3: the address ranges of the descriptors of two distinct live allocations never
\* intersect.
C3_NoOverlap ==
    \A a \in live, b \in live :
        a # b => \A i \in At(Blocks, a), j \in At(Blocks, b) : Disjoint(Blocks[i], Blocks[j])

C3_Witness ==
    /\ Cardinality(live) >= 2
    /\ \A a \in live : \E i \in At(Blocks, a) : InUse(Blocks[i]) /\ Blocks[i].block_size > 0
    /\ op = "mem_alloc" /\ ret # NULL

\* ------------------------------------------------------------- C4
\* C4: mem_alloc(n) is first-fit: unless malloc refuses a record, it succeeds exactly
\* when some available descriptor has block_size >= n, and a successful call returns the
\* data_ptr of the lowest-address such descriptor of the list before the call.
C4_FirstFit ==
    [][op' = "mem_alloc" =>
          LET F == Fits(Blocks, argSize') IN
          /\ ~oom' => (ret' # NULL <=> F # {})
          /\ ret' # NULL =>
                /\ F # {}
                /\ \A i \in F : ret' <= Blocks[i].data_ptr
                /\ \E i \in F : ret' = Blocks[i].data_ptr]_vars

\* a call that passed over a smaller available descriptor
C4_Witness ==
    /\ op = "mem_alloc" /\ ret # NULL
    /\ \E i \in 1..Len(Blocks) : Available(Blocks[i]) /\ Blocks[i].data_ptr < ret

\* ------------------------------------------------------------- C5
\* the lowest position lo <= i with every descriptor in lo..i-1 available
RunLo(B, i) == SetMin({lo \in 1..i : \A j \in lo..(i - 1) : Available(B[j])})
\* the highest position hi >= i with every descriptor in i+1..hi available
RunHi(B, i) == CHOOSE hi \in i..Len(B) :
                  /\ \A j \in (i + 1)..hi : Available(B[j])
                  /\ (hi < Len(B) => InUse(B[hi + 1]))

\* C5: when mem_free releases an in-use block, the block and the runs of available
\* descriptors on both of its sides become one available descriptor whose size is the
\* sum of their sizes.
C5_CoalesceBothSides ==
    [][(op' = "mem_free" /\ InUseAt(heap, pool_head, argPtr')) =>
          LET B  == Blocks
              i  == SetMin(At(B, argPtr'))
              lo == RunLo(B, i)
              hi == RunHi(B, i)
              B2 == BlocksOf(heap', pool_head')
          IN \E k \in 1..Len(B2) :
                /\ Available(B2[k])
                /\ B2[k].data_ptr = B[lo].data_ptr
                /\ B2[k].block_size = SumSizes(SubSeq(B, lo, hi))]_vars

\* ------------------------------------------------------------- C6
\* the globals, the records, the reserved arenas and the arena bytes
PoolState == <<pool_start, pool_head, total_pool_size, heap, arenas, mem>>

\* C6: mem_free(a) changes the pool only if a is the data_ptr of an in-use descriptor;
\* for NULL, for an address that starts no descriptor, and for an address whose
\* descriptor is already available, nothing changes and the call returns.
C6_FreeInert ==
    [][op' = "mem_free" =>
          LET B == Blocks
              D == At(B, argPtr')
          IN /\ ~exited'
             /\ PoolState' # PoolState => \E i \in D : InUse(B[i])
             /\ (argPtr' = NULL \/ D = {} \/ Available(B[SetMin(D)])) =>
                    PoolState' = PoolState]_vars

\* a second mem_free of an address: a first one would have absorbed the successor
C6_Witness ==
    /\ op = "mem_free" /\ argPtr # NULL
    /\ \E i \in 1..(Len(Blocks) - 1) :
          /\ Blocks[i].data_ptr = argPtr
          /\ Available(Blocks[i]) /\ Available(Blocks[i + 1])

\* ------------------------------------------------------------- C7
\* C7: when mem_resize(p, n) finds p with block_size < n and the allocation of n bytes
\* fails, it returns NULL and leaves the list, p's descriptor and the arena bytes
\* unchanged.
C7_ResizeFailKeeps ==
    [][(op' = "mem_resize" /\ argPtr' # NULL /\ At(Blocks, argPtr') # {}
        /\ Blocks[SetMin(At(Blocks, argPtr'))].block_size < argSize') =>
          /\ (Fits(Blocks, argSize') = {} \/ oom') => ret' = NULL
          /\ ret' = NULL => PoolState' = PoolState]_vars

C7_Witness ==
    /\ op = "mem_resize" /\ argPtr # NULL /\ ret = NULL
    /\ \E i \in At(Blocks, argPtr) : InUse(Blocks[i]) /\ Blocks[i].block_size < argSize
    /\ argPtr \in live

\* ------------------------------------------------------------- C8
\* C8: when mem_resize(p, n) on an in-use block of old_size < n succeeds, it returns
\* q # p whose descriptor is in use with size n, the first old_size bytes at q are the
\* bytes that were at p, and p's descriptor is no longer in use.
C8_ResizeMoves ==
    [][(op' = "mem_resize" /\ InUseAt(heap, pool_head, argPtr')
        /\ Blocks[SetMin(At(Blocks, argPtr'))].block_size < argSize'
        /\ ret' # NULL) =>
          LET p  == argPtr'
              q  == ret'
              old_size == Blocks[SetMin(At(Blocks, p))].block_size
              B2 == BlocksOf(heap', pool_head')
          IN /\ q # p
             /\ \E k \in At(B2, q) : InUse(B2[k]) /\ B2[k].block_size = argSize'
             /\ \A i \in 0..(old_size - 1) : mem'[q + i] = mem[p + i]
             /\ \A k \in At(B2, p) : Available(B2[k])]_vars

\* The statement of C8 restricted to blocks of old_size > 0 (it holds).
C8_ResizeMovesNonEmpty ==
    [][(op' = "mem_resize" /\ InUseAt(heap, pool_head, argPtr')
        /\ Blocks[SetMin(At(Blocks, argPtr'))].block_size < argSize'
        /\ Blocks[SetMin(At(Blocks, argPtr'))].block_size > 0
        /\ ret' # NULL) =>
          LET p  == argPtr'
              q  == ret'
              old_size == Blocks[SetMin(At(Blocks, p))].block_size
              B2 == BlocksOf(heap', pool_head')
          IN /\ q # p
             /\ \E k \in At(B2, q) : InUse(B2[k]) /\ B2[k].block_size = argSize'
             /\ \A i \in 0..(old_size - 1) : mem'[q + i] = mem[p + i]
             /\ \A k \in At(B2, p) : Available(B2[k])]_vars

\* ------------------------------------------------------------- C9
\* C9: mem_resize(p, n) where p is found with block_size >= n returns p and changes
\* neither the list nor the arena bytes.
C9_ResizeInPlace ==
    [][(op' = "mem_resize" /\ argPtr' # NULL /\ At(Blocks, argPtr') # {}
        /\ Blocks[SetMin(At(Blocks, argPtr'))].block_size >= argSize') =>
          /\ ret' = argPtr'
          /\ PoolState' = PoolState]_vars

\* a request to shrink: the block keeps its larger size
C9_Witness ==
    /\ op = "mem_resize" /\ argPtr # NULL /\ ret = argPtr
    /\ \E i \in At(Blocks, argPtr) : InUse(Blocks[i]) /\ Blocks[i].block_size > argSize
    /\ argSize > 0

\* ------------------------------------------------------------- C10
\* C10: mem_alloc(n) with no available descriptor of block_size >= n returns NULL and
\* leaves the list unchanged; when malloc refuses the record of the remainder, it
\* returns NULL and the chosen descriptor is unmodified.
C10_AllocFailKeeps ==
    [][op' = "mem_alloc" =>
          /\ Fits(Blocks, argSize') = {} => (ret' = NULL /\ PoolState' = PoolState)
          /\ oom' => (ret' = NULL /\ PoolState' = PoolState)
          /\ (ret' = NULL /\ Fits(Blocks, argSize') # {}) => oom']_vars

\* malloc refused the record of a split
C10_Witness ==
    /\ op = "mem_alloc" /\ ret = NULL /\ oom
    /\ \E i \in Fits(Blocks, argSize) : Blocks[i].block_size > argSize

\* ------------------------------------------------------------- C11
\* C11: every descriptor of the list has block_size > 0 in every reachable state, for
\* requests of every size including 0 (mem_alloc(0) would have to be rejected).
C11_PositiveSizes ==
    \A i \in 1..Len(Blocks) : Blocks[i].block_size > 0

\* ------------------------------------------------------------- C12
\* the addresses of all the arenas malloc can hand out, one past the end included
AllPtrs == 0..(NumArenas * Stride)

\* A caller that also calls mem_init while a pool exists (and never calls mem_resize).
NextReinit ==
    \/ \E s \in PoolSizes, okA \in BOOLEAN, okR \in BOOLEAN :
          MemInit(s, okA, okR) /\ UNCHANGED pc
    \/ \E s \in Sizes, ok \in BOOLEAN : MemAlloc(s, ok) /\ UNCHANGED pc
    \/ \E p \in AllPtrs : MemFree(p) /\ UNCHANGED pc
    \/ MemDeinit /\ UNCHANGED pc

SpecReinit == Init /\ [][NextReinit]_vars

\* C12: a second mem_init without mem_deinit leaks neither the previous arena nor its
\* records: every reserved arena is the current pool_start, and every allocated record
\* is reached from pool_head.
C12_NoLeak ==
    /\ \A a \in arenas : a = pool_start
    /\ \A r \in DOMAIN heap : \E i \in 1..Len(ListFrom(heap, pool_head)) :
                                 ListFrom(heap, pool_head)[i] = r

\* ------------------------------------------------------------- C13
\* C13: mem_deinit releases the arena and every record reached from pool_head, each
\* once, and leaves pool_start = NULL, pool_head = NULL, total_pool_size = 0 with
\* nothing allocated, as before any mem_init; called in that state it releases nothing.
C13_DeinitResets ==
    [][op' = "mem_deinit" =>
          LET L == ListFrom(heap, pool_head) IN
          /\ pool_start' = NULL /\ pool_head' = NULL /\ total_pool_size' = 0
          /\ pool_start \notin arenas'
          /\ \A i \in 1..Len(L) : L[i] \notin DOMAIN heap'
          /\ freed' = Len(L)
          /\ heap' = NoMem /\ arenas' = {} /\ mem' = NoMem
          /\ (pool_start = NULL /\ pool_head = NULL) =>
                (heap' = heap /\ arenas' = arenas /\ freed' = 0)]_vars

\* mem_deinit has released a list of three or more records
C13_Witness ==
    op = "mem_deinit" /\ freed >= 3 /\ pool_start = NULL /\ heap = NoMem

\* ------------------------------------------------------------- C14
\* C14: in every reachable state the data_ptr of every in-use descriptor is an address
\* that mem_alloc or mem_resize returned and that has not been released since.
C14_InUseIsLive ==
    \A i \in 1..Len(Blocks) : InUse(Blocks[i]) => Blocks[i].data_ptr \in live

\* The statement of C14 for pools on which no size of 0 was requested.
C14_InUseIsLiveNonEmpty ==
    zeroReqs = 0 => \A i \in 1..Len(Blocks) : InUse(Blocks[i]) => Blocks[i].data_ptr \in live

\* ------------------------------------------------------------- C15
\* The calls of the end-to-end scenario, in order: n is the size passed to mem_init and
\* mem_alloc, and the offset in the arena of the address passed to mem_free.
Script ==
    << [f |-> "mem_init", n |-> 100],
       [f |-> "mem_alloc", n |-> 30],
       [f |-> "mem_alloc", n |-> 20],
       [f |-> "mem_free", n |-> 0],
       [f |-> "mem_alloc", n |-> 10],
       [f |-> "mem_free", n |-> 30],
       [f |-> "mem_free", n |-> 0],
       [f |-> "mem_free", n |-> 10] >>

\* the script is abandoned when malloc refuses a request
Abandoned == Len(Script) + 1

\* arena contents of n bytes: all 0, or all 0 but one byte
Fills(n) == {[o \in 0..(n - 1) |-> IF o = k THEN 1 ELSE 0] : k \in 0..n}

ScenInit ==
    /\ pc < Len(Script) /\ Script[pc + 1].f = "mem_init"
    /\ \E fill \in Fills(Script[pc + 1].n), okA \in BOOLEAN, okR \in BOOLEAN :
          MemInitWith(Script[pc + 1].n, okA, okR, fill)
    /\ pc' = (IF exited' THEN Abandoned ELSE pc + 1)

ScenAlloc ==
    /\ pc < Len(Script) /\ Script[pc + 1].f = "mem_alloc"
    /\ \E ok \in BOOLEAN : MemAlloc(Script[pc + 1].n, ok)
    /\ pc' = (IF oom' THEN Abandoned ELSE pc + 1)

ScenFree ==
    /\ pc < Len(Script) /\ Script[pc + 1].f = "mem_free"
    /\ MemFree(pool_start + Script[pc + 1].n)
    /\ pc' = pc + 1

\* The caller of the end-to-end scenario.
NextScenario == ScenInit \/ ScenAlloc \/ ScenFree

SpecScenario == Init /\ [][NextScenario]_vars

\* the list as <<offset in the arena, block_size, is_available>> per descriptor
Layout == [i \in 1..Len(Blocks) |->
              <<Blocks[i].data_ptr - pool_start, Blocks[i].block_size, Blocks[i].is_available>>]

\* C15: init(100); alloc(30) returns offset 0 and leaves 70 free; alloc(20) returns
\* offset 30 and leaves 50 free; free(offset 0); alloc(10) returns offset 0 and splits
\* the free 30 into 10 in use + 20 free; free(offset 30), free(offset 0), free(offset 10)
\* leave one available descriptor of size 100 at offset 0.
C15_Scenario ==
    /\ pc = 2 => (ret = pool_start + 0 /\ Layout = << <<0, 30, 0>>, <<30, 70, 1>> >>)
    /\ pc = 3 => (ret = pool_start + 30
                  /\ Layout = << <<0, 30, 0>>, <<30, 20, 0>>, <<50, 50, 1>> >>)
    /\ pc = 5 => (ret = pool_start + 0
                  /\ Layout = << <<0, 10, 0>>, <<10, 20, 1>>, <<30, 20, 0>>, <<50, 50, 1>> >>)
    /\ pc = 8 => Layout = << <<0, 100, 1>> >>

\* the whole script has run
C15_Witness ==
    pc = Len(Script) /\ ~exited /\ op = "mem_free" /\ pool_start # NULL /\ Len(Blocks) = 1

\* ------------------------------------------------------------- C16
\* C16: a successful mem_alloc(n) on the chosen available descriptor of size s at
\* address a: if s > n the descriptor becomes in use with size n and is followed by a
\* new available descriptor at a + n of size s - n linked to the former successor; if
\* s = n the descriptor is only marked in use and the list keeps its length; every
\* other descriptor is unchanged.
C16_AllocFrame ==
    [][(op' = "mem_alloc" /\ ret' # NULL) =>
          LET n  == argSize'
              B  == Blocks
              L  == ListFrom(heap, pool_head)
              i  == SetMin(Fits(B, n))
              B2 == BlocksOf(heap', pool_head')
              L2 == ListFrom(heap', pool_head')
          IN /\ Fits(B, n) # {}
             /\ ret' = B[i].data_ptr
             /\ \A r \in (DOMAIN heap) \ {L[i]} : r \in DOMAIN heap' /\ heap'[r] = heap[r]
             /\ \A j \in 1..i : L2[j] = L[j]
             /\ IF B[i].block_size > n
                THEN /\ Len(B2) = Len(B) + 1
                     /\ B2[i].data_ptr = B[i].data_ptr
                     /\ InUse(B2[i]) /\ B2[i].block_size = n
                     /\ L2[i + 1] \notin DOMAIN heap
                     /\ Available(B2[i + 1])
                     /\ B2[i + 1].data_ptr = B[i].data_ptr + n
                     /\ B2[i + 1].block_size = B[i].block_size - n
                     /\ B2[i + 1].next_block = B[i].next_block
                     /\ \A j \in (i + 1)..Len(B) : L2[j + 1] = L[j]
                ELSE /\ L2 = L
                     /\ B2[i] = [B[i] EXCEPT !.is_available = 0]]_vars

\* a split of a descriptor that has a successor
C16_Witness ==
    /\ op = "mem_alloc" /\ ret # NULL /\ argSize > 0
    /\ \E i \in 1..(Len(Blocks) - 2) :
          /\ Blocks[i].data_ptr = ret /\ InUse(Blocks[i]) /\ Blocks[i].block_size = argSize
          /\ Available(Blocks[i + 1])
          /\ Blocks[i + 1].data_ptr = ret + argSize

\* ------------------------------------------------------------- C17
\* C17: mem_free(p) on an in-use descriptor absorbs the maximal run of k >= 0 available
\* descriptors that follow it: afterwards the descriptor at p is available with its old
\* size plus the sizes of those k, the k records are released and the list is shorter
\* by k, its successor (if any) is in use, and the descriptors before p (and those
\* after the run) are unchanged.
C17_FreeAbsorbsRun ==
    [][(op' = "mem_free" /\ InUseAt(heap, pool_head, argPtr')) =>
          LET B  == Blocks
              L  == ListFrom(heap, pool_head)
              i  == SetMin(At(B, argPtr'))
              hi == RunHi(B, i)
              k  == hi - i
              B2 == BlocksOf(heap', pool_head')
              L2 == ListFrom(heap', pool_head')
          IN /\ Len(B2) = Len(B) - k
             /\ freed' = k
             /\ \A j \in (i + 1)..hi : L[j] \notin DOMAIN heap'
             /\ L2[i] = L[i]
             /\ Available(B2[i])
             /\ B2[i].data_ptr = argPtr'
             /\ B2[i].block_size = SumSizes(SubSeq(B, i, hi))
             /\ i < Len(B2) => InUse(B2[i + 1])
             /\ \A j \in 1..(i - 1) : L2[j] = L[j] /\ B2[j] = B[j]
             /\ \A j \in (hi + 1)..Len(B) : L2[j - k] = L[j] /\ B2[j - k] = B[j]]_vars

\* a release that absorbed two descriptors
C17_Witness ==
    /\ op = "mem_free" /\ freed = 2
    /\ \E i \in At(Blocks, argPtr) : Available(Blocks[i]) /\ Blocks[i].block_size = 3

\* ------------------------------------------------------------- C18
\* C18: whenever every live allocation has been released, after any calls with sizes
\* > 0, the list is one available descriptor of size total_pool_size at pool_start
\* (so mem_alloc(total_pool_size) would succeed).
C18_AllReleasedIsWhole ==
    (pool_head # NULL /\ zeroReqs = 0 /\ live = {}
     /\ \A i \in 1..Len(Blocks) : Available(Blocks[i])) =>
        /\ Len(Blocks) = 1
        /\ Blocks[1].data_ptr = pool_start
        /\ Blocks[1].block_size = total_pool_size
        /\ Fits(Blocks, total_pool_size) # {}

\* ------------------------------------------------------------- C19
\* C19: every non-NULL address mem_alloc or mem_resize returns is, when the call
\* returns, the data_ptr of an in-use descriptor; mem_resize never returns an address
\* whose descriptor is available.
C19_ReturnedIsInUse ==
    ((op = "mem_alloc" \/ op = "mem_resize") /\ ret # NULL) =>
        \E i \in At(Blocks, ret) : InUse(Blocks[i])

\* The statement of C19 for mem_alloc, and for mem_resize of an address whose
\* descriptor is in use.
C19_ReturnedIsInUseLive ==
    [][((op' = "mem_alloc" \/ (op' = "mem_resize"
                               /\ (argPtr' = NULL \/ InUseAt(heap, pool_head, argPtr'))))
        /\ ret' # NULL) =>
          \E i \in At(BlocksOf(heap', pool_head'), ret') :
              InUse(BlocksOf(heap', pool_head')[i])]_vars

\* ------------------------------------------------------------- C20
\* the records reached from head, as a set
Reached(h, head) == {ListFrom(h, head)[i] : i \in 1..Len(ListFrom(h, head))}

\* C20: between mem_init and the matching mem_deinit every record malloc handed out is
\* either reached exactly once from pool_head or has been released: the list is finite
\* with no cycle and no link to a released record, and the allocated records are
\* exactly the reached ones.
C20_RecordAccounting ==
    LET L == ListFrom(heap, pool_head)
        R == {L[i] : i \in 1..Len(L)}
    IN /\ Len(L) <= MaxRecs
       /\ Cardinality(R) = Len(L)
       /\ DOMAIN heap = R
       /\ \A r \in DOMAIN heap : heap[r].next_block \in (DOMAIN heap) \cup {NULL}

\* a release has unlinked and freed a record, and other records stay linked
C20_Witness ==
    /\ op = "mem_free" /\ freed >= 1 /\ Len(Blocks) >= 2
    /\ DOMAIN heap = Reached(heap, pool_head)
====
